---- MODULE Spec2Model ----
(***************************************************************************)
(* The text-to-speech generation-and-cache pipeline of the repository.     *)
(*                                                                         *)
(* The repository holds several versions of the same server.  Four of them *)
(* keep an on-disk cache of <hash>.mp3 files and are modelled here, one    *)
(* per value of `variant`:                                                 *)
(*   "server"   src/server.js lines 131-540 (POST /api/tts, lines 356-418) *)
(*   "part007"  src/unnamed/part_007 (generateTTSAudio with the CACHE map) *)
(*   "part005"  src/unnamed/part_005 (generateTTSAudio, synchronous fs)    *)
(*   "part006"  src/unnamed/part_006 (event-driven POST /api/tts)          *)
(* A request is one POST /api/tts call.  Node runs each handler until its  *)
(* next await or event, so one action is one such run: everything between  *)
(* two suspension points happens in a single step.                         *)
(***************************************************************************)
EXTENDS Integers, FiniteSets, Sequences, TLC

\* Number of request slots (requests that may be made in one behaviour).
NumReq == 2

Req == 1..NumReq

\* Two fingerprints (md5 of text+voice+speed) are enough to tell one
\* fingerprint's files from another's.
Fps == {"fpA", "fpB"}

Variants == {"server", "part007", "part005", "part006"}

VARIABLES
    variant,    \* which version of the server runs
    pc,         \* pc[r]: the suspension point request r waits at
    fp,         \* fp[r]: the hash computed for request r
    wavFile,    \* wavFile[f]: the file <f>.wav of the audio directory
    mp3File,    \* mp3File[f]: the file <f>.mp3 of the audio directory
    CACHE,      \* part_007's in-memory Map hash -> result
    how,        \* how[r]: path taken: "mem", "disk" (cache hit) or "gen"
    outcome,    \* outcome[r]: "ok" (HTTP 200) or "fail" (HTTP 500)
    err,        \* err[r]: what failed
    meta,       \* meta[r]: the metadata gathered / returned
    spawned,    \* spawned[r]: the executables request r has spawned
    miss,       \* miss[r]: no <f>.mp3 existed when r was made
    conc,       \* conc[r]: requests for the same hash in flight together with r
    transSrc    \* transSrc[r]: the <f>.wav r's ffmpeg opened as its input

\* One call of a promise wrapper around a child process (runEspeak,
\* convertToMp3, executeCommand, getAudioDuration), taken on its own.
VARIABLES
    wrapper,     \* which wrapper function was called
    child,       \* the child process: "spawnfail", "running", "closing", "closed", "dead"
    code,        \* the exit code 'close' reports
    emitted,     \* number of chunks the child has written to stderr
    errorOutput, \* number of stderr chunks the wrapper has collected
    output,      \* what the wrapper has collected of the child's stdout
    outputPath,  \* the file at the child's output path
    timeout,     \* the wrapper's 30 s timer
    settled,     \* state of the promise the wrapper returned
    result,      \* the value or error the promise settled with
    killed,      \* process.kill() has been called
    up           \* the node process is running

runVars == <<wrapper, child, code, emitted, errorOutput, output, outputPath,
             timeout, settled, result, killed, up>>

pipeVars == <<variant, pc, fp, wavFile, mp3File, CACHE, how, outcome, err, meta,
              spawned, miss, conc, transSrc>>

\* The first run of POST /api/tts on one request body, and the fingerprints
\* of the requests of a behaviour, taken on their own.
VARIABLES
    body,       \* the JSON body of the request
    post,       \* what the handler's first run did with it
    dir,        \* names of the files in the audio directory
    triples,    \* triples[r]: text, voice and speed of request r
    fprint      \* fprint[r]: the identifier computed for request r

frontVars == <<body, post, dir, triples, fprint>>

\* POST /api/cleanup (the sweep of the audio directory) and
\* POST /api/upload-to-roblox (the publication of one artifact).
VARIABLES
    mtime,      \* mtime[n]: the version of file n that was last modified, and how long ago
    sweep,      \* the suspension point of the cleanup handler
    files,      \* the part of the readdir listing the loop has not visited yet
    cleaned,    \* the handler's counter of deleted files
    errors,     \* the handler's list of per-file failures (the file names)
    seen,       \* per listed file: what the sweep found and did
    upload      \* the upload request and its publish call

adminVars == <<mtime, sweep, files, cleaned, errors, seen, upload>>

\* One POST /api/tts of a version whose handler listens to its child
\* process itself (part_006, part_004), and the response object it is given.
VARIABLES
    route,      \* how far the handler and its callbacks have come
    httpRes     \* the response object `res`: calls of res.json, responses sent

handlerVars == <<route, httpRes>>

\* The game client of part_008 (TTSModule): its State table, and what its
\* threads have done.
VARIABLES
    isProcessing,   \* State.isProcessing
    queue,          \* State.queue: the requests waiting, oldest first
    activeSounds,   \* State.activeSounds: the sounds inserted by speak
    sounds,         \* per request: its Sound (none, playing, destroyed)
    spoken,         \* the requests given to speak, in the order of the calls
    posted,         \* the requests sent with PostAsync, in the order sent
    inflight        \* the requests whose PostAsync has not returned

clientVars == <<isProcessing, queue, activeSounds, sounds, spoken, posted, inflight>>

vars == <<pipeVars, runVars, frontVars, adminVars, handlerVars, clientVars>>

\* What the steps of the pipeline, of a wrapper call, of the request front
\* and of the two maintenance endpoints leave alone.
notPipe == <<runVars, frontVars, adminVars, handlerVars, clientVars>>

notRun == <<pipeVars, frontVars, adminVars, handlerVars, clientVars>>

notFront == <<pipeVars, runVars, adminVars, handlerVars, clientVars>>

notAdmin == <<runVars, frontVars, handlerVars, clientVars>>

notHandler == <<frontVars, adminVars, clientVars>>

notClient == <<pipeVars, runVars, frontVars, adminVars, handlerVars>>

----------------------------------------------------------------------------
\* Files.  A file is absent, or was last opened for writing by the
\* subprocess of request `by` and is partially written or complete.

Absent == [by |-> 0, st |-> "absent"]

File(r, s) == [by |-> r, st |-> s]

Files == {Absent} \cup {File(r, s) : r \in Req, s \in {"partial", "complete"}}

\* fs.existsSync / fsPromises.access
Exists(file) == file # Absent

\* stats.size: a complete file has its full size, a partial one has less.
Size(file) == IF file.st = "complete" THEN "full" ELSE "part"

\* A subprocess that closes with code 0 has written its whole output, if the
\* path still names the file it opened.
Completed(file, r) == IF file = File(r, "partial") THEN File(r, "complete") ELSE file

\* fs.unlink / fs.unlinkSync: afterwards the path names no file.  (On a
\* missing file unlink fails with ENOENT, which every caller of the async
\* form swallows with .catch.)
Unlink(file) == Absent

NoFp == "none"

NoMeta == [id |-> NoFp, size |-> "none", dur |-> "none"]

Metas == [id : Fps \cup {NoFp}, size : {"none", "full", "part"}, dur : {"none", "zero", "pos"}]

\* getAudioDuration resolves the parsed duration when the tool exits 0 and
\* 0 when it fails, as it does on a missing file.
getAudioDuration(file) == IF Exists(file) THEN "pos" ELSE "zero"

InFlight(r) == pc[r] \notin {"idle", "done"}

----------------------------------------------------------------------------
TypeOK ==
    /\ variant \in Variants
    /\ pc \in [Req -> {"idle", "access", "synth", "synthW", "trans", "transW",
                       "unlinkWav", "probe", "stat", "cleanWav", "cleanMp3",
                       "done"}]
    /\ fp \in [Req -> Fps \cup {NoFp}]
    /\ wavFile \in [Fps -> Files]
    /\ mp3File \in [Fps -> Files]
    /\ CACHE \in [Fps -> Metas]
    /\ how \in [Req -> {"none", "mem", "disk", "gen"}]
    /\ outcome \in [Req -> {"none", "ok", "fail"}]
    /\ err \in [Req -> STRING]
    /\ meta \in [Req -> Metas]
    /\ spawned \in [Req -> SUBSET {"espeak", "ffmpeg", "ffprobe"}]
    /\ miss \in [Req -> BOOLEAN]
    /\ conc \in [Req -> SUBSET Req]
    /\ transSrc \in [Req -> Files]

\* No request has been received and the audio directory is empty.
PipeIdle ==
    /\ pc = [r \in Req |-> "idle"]
    /\ fp = [r \in Req |-> NoFp]
    /\ wavFile = [f \in Fps |-> Absent]
    /\ mp3File = [f \in Fps |-> Absent]
    /\ CACHE = [f \in Fps |-> NoMeta]
    /\ how = [r \in Req |-> "none"]
    /\ outcome = [r \in Req |-> "none"]
    /\ err = [r \in Req |-> "none"]
    /\ meta = [r \in Req |-> NoMeta]
    /\ spawned = [r \in Req |-> {}]
    /\ miss = [r \in Req |-> FALSE]
    /\ conc = [r \in Req |-> {}]
    /\ transSrc = [r \in Req |-> Absent]

NoResult == [kind |-> "none", code |-> "none", stderr |-> 0]

\* No wrapper call is being followed.
RunIdle ==
    /\ wrapper = "none"
    /\ child = "none"
    /\ code = "none"
    /\ emitted = 0
    /\ errorOutput = 0
    /\ output = "none"
    /\ outputPath = "absent"
    /\ timeout = "none"
    /\ settled = "pending"
    /\ result = NoResult
    /\ killed = FALSE
    /\ up = TRUE

\* A field the JSON body does not have (undefined).
Missing == "undefined"

\* A speed is a JavaScript number: `int`, or `int` + 0.5 when `half`.  It is
\* not `given` when the body has no speed field.
NoSpeed == [given |-> FALSE, int |-> 0, half |-> FALSE]

NoBody == [text |-> Missing, voice |-> Missing, speed |-> NoSpeed]

\* No identifier computed (yet).
NoId == [alg |-> "none", of |-> ""]

NoArgs == [text |-> Missing, voice |-> Missing, speed |-> NoSpeed]

NoPost == [status |-> "none", hash |-> NoId, args |-> NoArgs, procs |-> {}]

\* No request body is being followed.
FrontIdle ==
    /\ body = NoBody
    /\ post = NoPost
    /\ dir = {}
    /\ triples = [r \in Req |-> NoBody]
    /\ fprint = [r \in Req |-> NoId]

\* The files of the audio directory are named <hash>.wav and <hash>.mp3.
Name(f, ext) == [fp |-> f, ext |-> ext]

Names == {Name(f, ext) : f \in Fps, ext \in {"wav", "mp3"}}

\* A file whose last modification the model has not dated was modified just now.
Fresh == [of |-> Absent, ago |-> 0]

NoUpload == [pc |-> "idle", audioId |-> NoFp, cloud |-> FALSE, open |-> FALSE,
             attempt |-> 0, token |-> FALSE, polls |-> 0, status |-> "none",
             assetId |-> "none"]

\* No cleanup and no upload has been requested.
AdminIdle ==
    /\ mtime = [n \in Names |-> Fresh]
    /\ sweep = "idle"
    /\ files = << >>
    /\ cleaned = 0
    /\ errors = {}
    /\ seen = [n \in Names |-> "none"]
    /\ upload = NoUpload

NoResponse == [calls |-> 0, sent |-> 0, status |-> "none", raised |-> FALSE]

\* No request is being followed through its handler.
HandlerIdle ==
    /\ route = "idle"
    /\ httpRes = NoResponse

\* Number of TTSModule.speak calls made in one behaviour.
MaxSpeak == 3

Speaks == 1..MaxSpeak

\* The module has been loaded: local State = { activeSounds = {},
\* isProcessing = false, queue = {} }.
ClientIdle ==
    /\ isProcessing = FALSE
    /\ queue = << >>
    /\ activeSounds = << >>
    /\ sounds = [i \in Speaks |-> "none"]
    /\ spoken = << >>
    /\ posted = << >>
    /\ inflight = {}

Init ==
    /\ variant \in Variants
    /\ PipeIdle
    /\ RunIdle
    /\ FrontIdle
    /\ AdminIdle
    /\ HandlerIdle
    /\ ClientIdle

----------------------------------------------------------------------------
\* One run of request r's code up to its next suspension point: the new
\* suspension point, the path, the executables spawned on the way, and the
\* response (if one is sent).
Step(r, p, h, exes, res, e, m) ==
    /\ pc' = [pc EXCEPT ![r] = p]
    /\ how' = [how EXCEPT ![r] = h]
    /\ spawned' = [spawned EXCEPT ![r] = exes]
    /\ outcome' = [outcome EXCEPT ![r] = res]
    /\ err' = [err EXCEPT ![r] = e]
    /\ meta' = [meta EXCEPT ![r] = m]

\* The first run of a new request.
Start(r, p, h, exes) == Step(r, p, h, exes, "none", "none", NoMeta)

Goto(r, p) == Step(r, p, how[r], spawned[r], "none", "none", meta[r])

Spawn(r, p, h, exe) == Step(r, p, h, spawned[r] \cup {exe}, "none", "none", meta[r])

\* res.json(...) / return result
Return(r, h, m) == Step(r, "done", h, spawned[r], "ok", "none", m)

\* res.status(500).json(...)
Respond500(r, e) == Step(r, "done", how[r], spawned[r], "fail", e, NoMeta)

\* A cache that answers a failure by generating again.
ThrowAndRetry(r, e) == Step(r, "synth", "gen", spawned[r] \cup {"espeak"}, "none", "none", NoMeta)

\* An error thrown on the generation path.  part_007 catches it to unlink
\* both files before rethrowing; the other versions answer 500 at once.
Throw(r, e) ==
    IF variant = "part007"
    THEN Step(r, "cleanWav", how[r], spawned[r], "none", e, NoMeta)
    ELSE Respond500(r, e)

\* Requests are made in the order of their slots, and the first one is for
\* "fpA" (the fingerprints are interchangeable).
FreeSlot(r, f) ==
    /\ pc[r] = "idle"
    /\ \A q \in Req : q < r => pc[q] # "idle"
    /\ r = 1 => f = "fpA"

\* POST /api/tts is received: hash, cache check and, on a miss, the spawn of
\* espeak, all in the handler's first synchronous run.  (part_007 awaits
\* fsPromises.access between the CACHE lookup and the spawn.)
ApiTts(r, f) ==
    /\ FreeSlot(r, f)
    /\ fp' = [fp EXCEPT ![r] = f]
    /\ miss' = [miss EXCEPT ![r] = ~Exists(mp3File[f])]
    /\ conc' = [q \in Req |->
                  IF q = r THEN {x \in Req : InFlight(x) /\ fp[x] = f}
                  ELSE IF InFlight(q) /\ fp[q] = f THEN conc[q] \cup {r}
                  ELSE conc[q]]
    /\ CASE variant = "server" ->
              /\ IF Exists(mp3File[f])
                 THEN Start(r, "probe", "disk", {"ffprobe"})
                 ELSE Start(r, "synth", "gen", {"espeak"})
              /\ UNCHANGED wavFile
         [] variant = "part007" ->
              /\ IF CACHE[f] # NoMeta
                 THEN Step(r, "done", "mem", {}, "ok", "none", CACHE[f])
                 ELSE Start(r, "access", "none", {})
              /\ UNCHANGED wavFile
         [] variant = "part005" ->
              /\ IF Exists(mp3File[f])
                 THEN Step(r, "done", "disk", {}, "ok", "none",
                           [id |-> f, size |-> Size(mp3File[f]), dur |-> "pos"])
                 ELSE Start(r, "synth", "gen", {"espeak"})
              /\ UNCHANGED wavFile
         [] variant = "part006" ->
              IF Exists(mp3File[f])
              THEN /\ Step(r, "done", "disk", {}, "ok", "none",
                           [id |-> f, size |-> Size(mp3File[f]), dur |-> "pos"])
                   /\ UNCHANGED wavFile
              ELSE /\ Start(r, "synth", "gen", {"espeak"})
                   /\ wavFile' = [wavFile EXCEPT ![f] = Unlink(@)]
    /\ UNCHANGED <<notPipe, variant, mp3File, CACHE, transSrc>>

\* part_007: fsPromises.access(mp3File) settles.
Access(r) ==
    /\ pc[r] = "access"
    /\ IF Exists(mp3File[fp[r]])
       THEN Step(r, "stat", "disk", spawned[r], "none", "none", meta[r])
       ELSE Spawn(r, "synth", "gen", "espeak")
    /\ UNCHANGED <<notPipe, variant, fp, wavFile, mp3File, CACHE, miss, conc, transSrc>>

\* A synthesizer that writes one scratch file, whatever the request.
EspeakOpenShared(r) ==
    /\ pc[r] = "synth"
    /\ wavFile' = [wavFile EXCEPT !["fpA"] = File(r, "partial")]
    /\ Goto(r, "synthW")
    /\ UNCHANGED <<notPipe, variant, fp, mp3File, CACHE, miss, conc, transSrc>>

\* espeak opens its -w output file, truncating whatever the path named.
EspeakOpen(r) ==
    /\ pc[r] = "synth"
    /\ wavFile' = [wavFile EXCEPT ![fp[r]] = File(r, "partial")]
    /\ Goto(r, "synthW")
    /\ UNCHANGED <<notPipe, variant, fp, mp3File, CACHE, miss, conc, transSrc>>

\* espeak closes with code 0: runEspeak resolves and convertToMp3 spawns
\* ffmpeg in the same run.
EspeakClose(r) ==
    /\ pc[r] = "synthW"
    /\ wavFile' = [wavFile EXCEPT ![fp[r]] = Completed(@, r)]
    /\ Spawn(r, "trans", how[r], "ffmpeg")
    /\ UNCHANGED <<notPipe, variant, fp, mp3File, CACHE, miss, conc, transSrc>>

\* espeak closes with a nonzero code, or (server.js only) the 30 s timer
\* kills it: runEspeak rejects.  What espeak wrote so far stays on disk.
EspeakFail(r, kind) ==
    /\ pc[r] \in {"synth", "synthW"}
    /\ kind = "timeout" => variant = "server"
    /\ Throw(r, "synth:" \o kind)
    /\ UNCHANGED <<notPipe, variant, fp, wavFile, mp3File, CACHE, miss, conc, transSrc>>

\* ffmpeg opens its input and creates its output (-y: overwriting; part_006
\* passes no -y, so there ffmpeg does not replace an existing file).
FfmpegOpen(r) ==
    /\ pc[r] = "trans"
    /\ Exists(wavFile[fp[r]])
    /\ variant = "part006" => ~Exists(mp3File[fp[r]])
    /\ mp3File' = [mp3File EXCEPT ![fp[r]] = File(r, "partial")]
    /\ transSrc' = [transSrc EXCEPT ![r] = wavFile[fp[r]]]
    /\ Goto(r, "transW")
    /\ UNCHANGED <<notPipe, variant, fp, wavFile, CACHE, miss, conc>>

\* ffmpeg closes with code 0; convertToMp3 resolves and the handler runs on
\* to its next await.
FfmpegClose(r) ==
    /\ pc[r] = "transW"
    /\ LET f == fp[r]
           out == Completed(mp3File[f], r)
       IN  /\ mp3File' = [mp3File EXCEPT ![f] = out]
           /\ CASE variant = "server" ->
                    \* resolve only if fsSync.existsSync(outputPath)
                    /\ IF Exists(out) THEN Goto(r, "unlinkWav")
                                      ELSE Respond500(r, "trans:nooutput")
                    /\ UNCHANGED wavFile
                [] variant = "part007" ->
                    /\ Goto(r, "stat")
                    /\ UNCHANGED wavFile
                [] variant = "part005" ->
                    \* unlinkSync(wavFile) if it exists, then the handler's
                    \* readFileSync / statSync of the mp3
                    /\ wavFile' = [wavFile EXCEPT ![f] = Unlink(@)]
                    /\ IF Exists(out)
                       THEN Return(r, "gen", [id |-> f, size |-> Size(out), dur |-> "pos"])
                       ELSE Respond500(r, "read")
                [] variant = "part006" ->
                    \* statSync(mp3File), unlinkSync(wavFile), res.json
                    IF ~Exists(out)
                    THEN Respond500(r, "stat") /\ UNCHANGED wavFile
                    ELSE IF ~Exists(wavFile[f])
                    THEN Respond500(r, "unlink") /\ UNCHANGED wavFile
                    ELSE /\ wavFile' = [wavFile EXCEPT ![f] = Unlink(@)]
                         /\ Return(r, "gen", [id |-> f, size |-> Size(out), dur |-> "pos"])
    /\ UNCHANGED <<notPipe, variant, fp, CACHE, miss, conc, transSrc>>

\* ffmpeg closes with a nonzero code (before or after it created its
\* output), or (server.js only) the 30 s timer kills it.
FfmpegFail(r, kind) ==
    /\ pc[r] \in {"trans", "transW"}
    /\ kind = "timeout" => variant = "server"
    /\ Throw(r, "trans:" \o kind)
    /\ wavFile' = IF variant = "part005"
                  THEN [wavFile EXCEPT ![fp[r]] = Unlink(@)]
                  ELSE wavFile
    /\ UNCHANGED <<notPipe, variant, fp, mp3File, CACHE, miss, conc, transSrc>>

\* await fs.unlink(wavFile).catch(...) on the success path.
UnlinkWav(r) ==
    /\ pc[r] = "unlinkWav"
    /\ wavFile' = [wavFile EXCEPT ![fp[r]] = Unlink(@)]
    /\ IF variant = "server"
       THEN Spawn(r, "probe", how[r], "ffprobe") /\ UNCHANGED CACHE
       ELSE /\ CACHE' = [CACHE EXCEPT ![fp[r]] = meta[r]]
            /\ Return(r, how[r], meta[r])
    /\ UNCHANGED <<notPipe, variant, fp, mp3File, miss, conc, transSrc>>

\* getAudioDuration(mp3File) settles.
Probe(r) ==
    /\ pc[r] = "probe"
    /\ LET m == [meta[r] EXCEPT !.dur = getAudioDuration(mp3File[fp[r]])]
       IN  IF variant = "server"
           THEN Step(r, "stat", how[r], spawned[r], "none", "none", m) /\ UNCHANGED CACHE
           ELSE IF how[r] = "disk"
           THEN /\ CACHE' = [CACHE EXCEPT ![fp[r]] = m]
                /\ Return(r, "disk", m)
           ELSE Step(r, "unlinkWav", how[r], spawned[r], "none", "none", m) /\ UNCHANGED CACHE
    /\ UNCHANGED <<notPipe, variant, fp, wavFile, mp3File, miss, conc, transSrc>>

\* fs.stat(mp3File) settles.
Stat(r) ==
    /\ pc[r] = "stat"
    /\ LET f == fp[r]
           m == [id |-> f, size |-> Size(mp3File[f]), dur |-> meta[r].dur]
       IN  IF Exists(mp3File[f])
           THEN IF variant = "server"
                THEN Return(r, how[r], m)
                ELSE Step(r, "probe", how[r], spawned[r] \cup {"ffprobe"}, "none", "none", m)
           ELSE IF variant = "part007" /\ how[r] = "disk"
                \* "Cache check error": falls through to generation
                THEN Spawn(r, "synth", "gen", "espeak")
                ELSE Throw(r, "stat")
    /\ UNCHANGED <<notPipe, variant, fp, wavFile, mp3File, CACHE, miss, conc, transSrc>>

\* part_007's catch: await unlink(wavFile), then await unlink(mp3File),
\* then rethrow.
CleanWav(r) ==
    /\ pc[r] = "cleanWav"
    /\ wavFile' = [wavFile EXCEPT ![fp[r]] = Unlink(@)]
    /\ Step(r, "cleanMp3", how[r], spawned[r], "none", err[r], NoMeta)
    /\ UNCHANGED <<notPipe, variant, fp, mp3File, CACHE, miss, conc, transSrc>>

CleanMp3(r) ==
    /\ pc[r] = "cleanMp3"
    /\ mp3File' = [mp3File EXCEPT ![fp[r]] = Unlink(@)]
    /\ Respond500(r, err[r])
    /\ UNCHANGED <<notPipe, variant, fp, wavFile, CACHE, miss, conc, transSrc>>

Next ==
    \/ \E r \in Req, f \in Fps : ApiTts(r, f)
    \/ \E r \in Req : Access(r)
    \/ \E r \in Req : EspeakOpen(r)
    \/ \E r \in Req : EspeakClose(r)
    \/ \E r \in Req, kind \in {"exit", "timeout"} : EspeakFail(r, kind)
    \/ \E r \in Req : FfmpegOpen(r)
    \/ \E r \in Req : FfmpegClose(r)
    \/ \E r \in Req, kind \in {"exit", "timeout"} : FfmpegFail(r, kind)
    \/ \E r \in Req : UnlinkWav(r)
    \/ \E r \in Req : Probe(r)
    \/ \E r \in Req : Stat(r)
    \/ \E r \in Req : CleanWav(r)
    \/ \E r \in Req : CleanMp3(r)

Spec == Init /\ [][Next]_vars

----------------------------------------------------------------------------
\* Vocabulary of the properties.

Ok(r) == pc[r] = "done" /\ outcome[r] = "ok"

Failed(r) == pc[r] = "done" /\ outcome[r] = "fail"

SameFp(r, q) == fp[r] # NoFp /\ fp[r] = fp[q]

\* r and q are two calls for the same fingerprint that were in flight at
\* the same time.
Overlap(r, q) == r # q /\ SameFp(r, q) /\ q \in conc[r]

\* q had been answered before r was made (slots are taken in order).
Before(q, r) == q < r /\ SameFp(r, q) /\ pc[r] # "idle" /\ q \notin conc[r]

\* This step is the one in which request r is answered.
Answered(r) == pc[r] # "done" /\ pc'[r] = "done"

\* This step was taken by another request than r.
NotBy(r) == pc'[r] = pc[r]

SynthFailure(e) == e \in {"synth:exit", "synth:timeout"}

TransFailure(e) == e \in {"trans:exit", "trans:timeout", "trans:nooutput"}

----------------------------------------------------------------------------
\* C1: calls with identical parameters that overlap while no artifact exists
\* run the synthesizer once and the transcoder once in total: no two such
\* calls have both spawned espeak, and no two have both spawned ffmpeg.
C1_OneGenerationPerFingerprint ==
    \A r, q \in Req :
        (Overlap(r, q) /\ miss[r] /\ miss[q]) =>
            /\ ~("espeak" \in spawned[r] /\ "espeak" \in spawned[q])
            /\ ~("ffmpeg" \in spawned[r] /\ "ffmpeg" \in spawned[q])

\* C2: a call made after a call for the same fingerprint has succeeded, with
\* the artifact on disk, spawns no subprocess at all and returns the
\* metadata the first call returned.
C2_HitSpawnsNothing ==
    \A r, q \in Req :
        (Before(q, r) /\ Ok(q) /\ ~miss[r] /\ Exists(mp3File[fp[r]])) =>
            /\ spawned[r] = {}
            /\ pc[r] = "done" => (outcome[r] = "ok" /\ meta[r] = meta[q])

\* C3: calls for the same fingerprint that overlap one generation end alike:
\* all succeed with the same metadata, or all fail.
C3_OverlappingCallsEndAlike ==
    \A r, q \in Req :
        (Overlap(r, q) /\ miss[r] /\ miss[q] /\ pc[r] = "done" /\ pc[q] = "done") =>
            /\ outcome[r] = outcome[q]
            /\ meta[r] = meta[q]

\* C4: when a call returns success, <fp>.wav does not exist and <fp>.mp3
\* exists.
C4_CleanupOnSuccess ==
    [][\A r \in Req :
          (Answered(r) /\ outcome'[r] = "ok") =>
              /\ ~Exists(wavFile'[fp'[r]])
              /\ Exists(mp3File'[fp'[r]])]_vars

\* C5: when a call returns the error of a failed transcode, neither
\* <fp>.wav nor a partial <fp>.mp3 is on disk.
C5_CleanupOnTranscodeFailure ==
    [][\A r \in Req :
          (Answered(r) /\ outcome'[r] = "fail" /\ TransFailure(err'[r])) =>
              /\ ~Exists(wavFile'[fp'[r]])
              /\ mp3File'[fp'[r]].st # "partial"]_vars

\* C6: when a call returns the error of a failed synthesis, <fp>.wav is not
\* on disk.
C6_CleanupOnSynthesisFailure ==
    [][\A r \in Req :
          (Answered(r) /\ outcome'[r] = "fail" /\ SynthFailure(err'[r])) =>
              ~Exists(wavFile'[fp'[r]])]_vars

\* C7: the artifact a cache hit returns was written by a transcode that
\* completed: the size a hit reports is that of a complete file.
C7_HitServesCompleteArtifact ==
    \A r \in Req :
        (Ok(r) /\ how[r] \in {"mem", "disk"}) => meta[r].size = "full"

\* C8: while a generation is synthesizing into, or transcoding from, the
\* <fp>.wav it created, no step of another request changes that file.
C8_IntermediateOwnedByGeneration ==
    [][\A r \in Req :
          (/\ pc[r] \in {"synthW", "trans", "transW"}
           /\ wavFile[fp[r]].by = r
           /\ NotBy(r)) =>
              wavFile'[fp[r]] = wavFile[fp[r]]]_vars

\* C9: a transcode opens <fp>.wav only once the synthesis that wrote it has
\* completed, and no synthesis writes <fp>.wav while a transcode of it runs.
C9_SynthesisThenTranscode ==
    /\ \A r \in Req : Exists(transSrc[r]) => transSrc[r].st = "complete"
    /\ \A r, q \in Req :
          (r # q /\ SameFp(r, q) /\ pc[r] = "transW") => pc[q] # "synthW"

\* C10: generateTTSAudio (part_007, with the CACHE map) returns metadata only
\* if the artifact exists on disk when it returns.
C10_FilesystemIsAuthoritative ==
    [][\A r \in Req :
          (variant = "part007" /\ Answered(r) /\ outcome'[r] = "ok") =>
              Exists(mp3File'[fp'[r]])]_vars

----------------------------------------------------------------------------
\* The promise wrappers around child processes, one call at a time.

\* Number of chunks a child may write to its stderr.
MaxChunks == 2

Wrappers == {"server.runEspeak", "server.convertToMp3", "server.getAudioDuration",
             "v1.runEspeak",
             "part007.runEspeak", "part007.convertToMp3", "part007.getAudioDuration",
             "part005.convertToMp3", "part006.convertToMp3"}

\* The version of the server a wrapper belongs to ("v1": src/server.js 1-129).
VersionOf(w) ==
    CASE w \in {"server.runEspeak", "server.convertToMp3", "server.getAudioDuration"} -> "server"
      [] w = "v1.runEspeak" -> "v1"
      [] w \in {"part007.runEspeak", "part007.convertToMp3", "part007.getAudioDuration"} -> "part007"
      [] w = "part005.convertToMp3" -> "part005"
      [] w = "part006.convertToMp3" -> "part006"

\* part_007's runEspeak and convertToMp3 both go through executeCommand.
executeCommand(w) == w \in {"part007.runEspeak", "part007.convertToMp3"}

convertToMp3(w) ==
    w \in {"server.convertToMp3", "part007.convertToMp3", "part005.convertToMp3",
           "part006.convertToMp3"}

IsProbe(w) == w \in {"server.getAudioDuration", "part007.getAudioDuration"}

\* What the wrapper's listener for the child's 'error' event does, "none" if
\* it registers no such listener.
OnError(w) ==
    CASE w \in {"v1.runEspeak", "part006.convertToMp3"} -> "reject"
      [] w = "server.getAudioDuration" -> "resolve0"
      [] OTHER -> "none"

\* setTimeout(() => { process.kill(); reject(...) }, 30000)
HasTimer(w) == w \in {"server.runEspeak", "server.convertToMp3"}

\* code === 0 && fsSync.existsSync(outputPath)
ChecksOutput(w) == w = "server.convertToMp3"

\* stderr.on('data', data => errorOutput += data), used in the error message
CollectsStderr(w) ==
    w \in {"server.runEspeak", "server.convertToMp3", "v1.runEspeak",
           "part007.runEspeak", "part007.convertToMp3", "part005.convertToMp3"}

\* process.on('uncaughtException', ...) that does not exit
HasUncaughtHandler(v) == v = "server"

\* parseFloat(output.trim())
parseFloat(out) == IF out = "number" THEN "pos" ELSE "NaN"

Resolved(k) == [kind |-> k, code |-> "none", stderr |-> -1]

Rejected(k, c, e) == [kind |-> k, code |-> c, stderr |-> e]

\* A promise that every call of resolve or reject settles anew.
SettleAnew(s, res) == settled' = s /\ result' = res

\* resolve / reject: only the first call settles the promise.
Settle(s, res) ==
    IF settled = "pending"
    THEN settled' = s /\ result' = res
    ELSE UNCHANGED <<settled, result>>

\* The promise executor: spawn the child (which starts, or fails to start),
\* register the listeners, arm the timer.
Call(w, started) ==
    /\ wrapper = "none"
    /\ wrapper' = w
    /\ variant' = VersionOf(w)
    /\ child' = IF started THEN "running" ELSE "spawnfail"
    /\ timeout' = IF HasTimer(w) THEN "armed" ELSE "none"
    /\ UNCHANGED <<pc, fp, wavFile, mp3File, CACHE, how, outcome, err, meta,
                   spawned, miss, conc, transSrc, frontVars, adminVars, handlerVars,
                   clientVars>>
    /\ UNCHANGED <<code, emitted, errorOutput, output, outputPath, settled,
                   result, killed, up>>

\* The child that could not be spawned emits 'error'.  With a listener the
\* wrapper settles and 'close' follows; without one the event is thrown as an
\* uncaught exception, 'close' is never emitted, and the node process exits
\* unless an uncaughtException handler is installed.
ErrorEvent ==
    /\ up /\ child = "spawnfail"
    /\ CASE OnError(wrapper) = "reject" ->
              /\ Settle("rejected", Rejected("spawn", "-2", -1))
              /\ child' = "closing" /\ code' = "-2" /\ up' = up
         [] OnError(wrapper) = "resolve0" ->
              /\ Settle("resolved", Resolved("zero"))
              /\ child' = "closing" /\ code' = "-2" /\ up' = up
         [] OTHER ->
              /\ child' = "dead" /\ code' = code
              /\ up' = HasUncaughtHandler(variant)
              /\ UNCHANGED <<settled, result>>
    /\ UNCHANGED <<notRun, wrapper, emitted, errorOutput, output, outputPath,
                   timeout, killed>>

\* The child writes a chunk to stderr; the 'data' listener appends it.
StderrData ==
    /\ up /\ child = "running" /\ emitted < MaxChunks
    /\ emitted' = emitted + 1
    /\ errorOutput' = IF CollectsStderr(wrapper) THEN errorOutput + 1 ELSE errorOutput
    /\ UNCHANGED <<notRun, wrapper, child, code, output, outputPath, timeout,
                   settled, result, killed, up>>

\* The probe prints the duration, or something that is no number.
StdoutData(d) ==
    /\ up /\ child = "running" /\ IsProbe(wrapper) /\ output = "none"
    /\ output' = d
    /\ UNCHANGED <<notRun, wrapper, child, code, emitted, errorOutput,
                   outputPath, timeout, settled, result, killed, up>>

\* espeak / ffmpeg creates its output file, then fills it.
WriteOutput ==
    /\ up /\ child = "running" /\ ~IsProbe(wrapper) /\ outputPath # "full"
    /\ outputPath' = IF outputPath = "absent" THEN "empty" ELSE "full"
    /\ UNCHANGED <<notRun, wrapper, child, code, emitted, errorOutput, output,
                   timeout, settled, result, killed, up>>

\* The child exits with code c.
Exit(c) ==
    /\ up /\ child = "running"
    /\ child' = "closing" /\ code' = c
    /\ UNCHANGED <<notRun, wrapper, emitted, errorOutput, output, outputPath,
                   timeout, settled, result, killed, up>>

\* A 'close' listener whose error message leaves out the collected stderr.
OnCloseWithoutStderr(w, c) ==
    IF c = "0" THEN Resolved("void") ELSE Rejected("exit", c, -1)

\* What the 'close' listener settles the promise with.
OnClose(w, c) ==
    IF IsProbe(w)
    THEN IF c # "0" THEN Resolved("zero")
         ELSE IF w = "server.getAudioDuration" /\ parseFloat(output) = "NaN"
         THEN Resolved("zero")
         ELSE Resolved(parseFloat(output))
    ELSE IF c = "0" /\ (ChecksOutput(w) => outputPath # "absent")
         THEN Resolved("void")
         ELSE Rejected("exit", c, IF CollectsStderr(w) THEN errorOutput ELSE -1)

\* 'close' is emitted once the child has ended and its stdio is drained.
Close ==
    /\ up /\ child = "closing"
    /\ child' = "closed"
    /\ timeout' = IF timeout = "armed" THEN "cleared" ELSE timeout
    /\ LET res == OnClose(wrapper, code)
       IN  Settle(IF res.kind \in {"exit"} THEN "rejected" ELSE "resolved", res)
    /\ UNCHANGED <<notRun, wrapper, code, emitted, errorOutput, output,
                   outputPath, killed, up>>

\* The 30 s timer fires: process.kill() and reject.  A child that was
\* running ends by the signal, with a null exit code.
Timeout ==
    /\ up /\ timeout = "armed"
    /\ timeout' = "fired"
    /\ killed' = TRUE
    /\ child' = IF child = "running" THEN "closing" ELSE child
    /\ code' = IF child = "running" THEN "null" ELSE code
    /\ Settle("rejected", Rejected("timeout", "none", -1))
    /\ UNCHANGED <<notRun, wrapper, emitted, errorOutput, output, outputPath, up>>

RunnerInit == variant = "none" /\ PipeIdle /\ RunIdle /\ FrontIdle /\ AdminIdle /\ HandlerIdle /\ ClientIdle

RunnerNext ==
    \/ \E w \in Wrappers, started \in BOOLEAN : Call(w, started)
    \/ ErrorEvent
    \/ StderrData
    \/ \E d \in {"number", "garbage"} : StdoutData(d)
    \/ WriteOutput
    \/ \E c \in {"0", "1"} : Exit(c)
    \/ Close
    \/ Timeout

RunnerSpec == RunnerInit /\ [][RunnerNext]_vars

RunnerTypeOK ==
    /\ wrapper \in Wrappers \cup {"none"}
    /\ child \in {"none", "spawnfail", "running", "closing", "closed", "dead"}
    /\ code \in {"none", "0", "1", "-2", "null"}
    /\ emitted \in 0..MaxChunks
    /\ errorOutput \in 0..MaxChunks
    /\ output \in {"none", "number", "garbage"}
    /\ outputPath \in {"absent", "empty", "full"}
    /\ timeout \in {"none", "armed", "cleared", "fired"}
    /\ settled \in {"pending", "resolved", "rejected"}
    /\ result.kind \in {"none", "void", "zero", "pos", "NaN", "exit", "timeout", "spawn"}
    /\ killed \in BOOLEAN
    /\ up \in BOOLEAN

----------------------------------------------------------------------------
\* The child could not be spawned and its 'error' event has been emitted.
SpawnFailed == child = "dead" \/ code = "-2"

runEspeak(w) == w \in {"server.runEspeak", "v1.runEspeak", "part007.runEspeak"}

\* C11: when the synthesizer cannot be spawned, the call is rejected with the
\* spawn error, no output file is created and the node process keeps running.
C11_SpawnErrorReachesCaller ==
    (runEspeak(wrapper) /\ SpawnFailed) =>
        /\ up
        /\ settled # "resolved"
        /\ settled = "rejected" => result.kind = "spawn"
        /\ outputPath = "absent"

\* C12: a synthesis or transcode subprocess that has not closed is under the
\* 30 s timer that will kill it and fail the call: while the call is pending
\* and its child still runs, the timer is armed.
C12_RunningChildHasTimer ==
    (~IsProbe(wrapper) /\ up /\ settled = "pending" /\ child = "running") =>
        timeout = "armed"

\* C13: convertToMp3 succeeds only if the output file exists and is not
\* empty once the transcoder has exited.
C13_TranscodePostCondition ==
    (convertToMp3(wrapper) /\ settled = "resolved") => outputPath = "full"

\* The child has closed after exiting by itself with code c.
ClosedWith(c) == child = "closed" /\ code = c

\* The wrappers named as the subprocess runner: executeCommand (part_007) and
\* runEspeak of src/server.js 25-50.
Runner(w) == executeCommand(w) \/ w = "v1.runEspeak"

\* C14: the runner resolves if and only if the child closes with exit code
\* 0; on a nonzero exit code it rejects with an error carrying that code
\* and all of the stderr the child wrote.
C14_RunnerSuccessIffExitZero ==
    Runner(wrapper) =>
        /\ settled = "resolved" <=> ClosedWith("0")
        /\ ClosedWith("1") =>
              /\ settled = "rejected"
              /\ result = Rejected("exit", "1", emitted)

\* A call of the runner whose child wrote to stderr and exited nonzero.
C14_Witness ==
    Runner(wrapper) /\ ClosedWith("1") /\ emitted = MaxChunks /\ settled = "rejected"

\* C15: getAudioDuration never rejects and never takes the server down, and
\* whatever it resolves with is a number >= 0 (0 or the parsed duration).
C15_DurationIsBestEffort ==
    IsProbe(wrapper) =>
        /\ up
        /\ settled # "rejected"
        /\ settled = "resolved" => result.kind \in {"zero", "pos"}

----------------------------------------------------------------------------
\* The front of POST /api/tts: defaults, validation, hash, file names, cache
\* check and spawn of espeak, as far as one request body decides them.

\* config.maxTextLength
maxTextLength == 1000

\* if (speed < 80 || speed > 500)
minSpeed == 80

maxSpeed == 500

\* const { text, voice = 'en', speed = 175 } = req.body
defaultSpeed == 175

\* The versions with a POST /api/tts that writes files named after the request.
FrontVersions == Variants \cup {"part004"}

Num(n) == [given |-> TRUE, int |-> n, half |-> FALSE]

Half(n) == [given |-> TRUE, int |-> n, half |-> TRUE]

\* speed < n and speed > n for an integer n
Less(s, n) == s.int < n

Greater(s, n) == s.int > n \/ (s.int = n /\ s.half)

\* speed.toString() / `${speed}`
toString(s) == ToString(s.int) \o (IF s.half THEN ".5" ELSE "")

\* A text of n characters.
RECURSIVE Rep(_)
Rep(n) ==
    IF n = 0 THEN ""
    ELSE IF n % 2 = 0 THEN LET h == Rep(n \div 2) IN h \o h
    ELSE "x" \o Rep(n - 1)

Texts == {Missing, "", " ", "a", "ab", Rep(maxTextLength), Rep(maxTextLength + 1)}

Voices == {Missing, "c", "bc"}

Speeds == {NoSpeed, Num(minSpeed - 1), Num(minSpeed), Half(defaultSpeed),
           Num(maxSpeed), Num(maxSpeed + 1)}

Bodies == [text : Texts, voice : Voices, speed : Speeds]

\* text.trim(): of the texts above only " " has whitespace to remove.
trim(t) == IF t = " " THEN "" ELSE t

\* A test that lets the empty string through.
FalsyOnlyUndefined(t) == t = Missing

\* !text
Falsy(t) == t = Missing \/ t = ""

\* The destructuring defaults.
Defaults(b) ==
    [text |-> b.text,
     voice |-> IF b.voice = Missing THEN "en" ELSE b.voice,
     speed |-> IF b.speed.given THEN b.speed ELSE Num(defaultSpeed)]

\* The handler's validation: "400" when it answers 400, "ok" when it goes on.
Validate(v, b) ==
    CASE v = "server" ->
           IF Falsy(b.text) \/ trim(b.text) = "" THEN "400"
           ELSE IF Len(b.text) > maxTextLength THEN "400"
           ELSE IF Less(b.speed, minSpeed) \/ Greater(b.speed, maxSpeed) THEN "400"
           ELSE "ok"
      [] v \in {"part007", "part005"} ->
           IF Falsy(b.text) \/ trim(b.text) = "" THEN "400" ELSE "ok"
      [] v \in {"part006", "part004"} ->
           IF Falsy(b.text) THEN "400" ELSE "ok"

\* `${text}${voice}${speed}` / text + voice + speed
HashInput(t, v, s) == t \o v \o toString(s)

\* crypto.createHash('md5').update(str).digest('hex'): a function of str
\* alone, taken to be free of collisions.
md5(str) == [alg |-> "md5", of |-> str]

\* crypto.randomBytes(16).toString('hex')
RandomIds == {"r1", "r2"}

randomBytes(rnd) == [alg |-> "random", of |-> rnd]

\* Every version naming its files after a fresh random id.
IdentifierAlwaysRandom(v, b, rnd) == randomBytes(rnd)

\* The identifier the files of a request are named after: the md5 hash, or
\* in part_004 a fresh random fileId.
Identifier(v, b, rnd) ==
    IF v = "part004" THEN randomBytes(rnd)
    ELSE md5(HashInput(b.text, b.voice, b.speed))

\* path.join(audioDir, `${hash}.wav`) and `${hash}.mp3`
FileName(id, ext) == [stem |-> id, ext |-> ext]

\* The request that may have been served before: its files may be on disk.
Earlier == [text |-> "a", voice |-> "en", speed |-> Num(defaultSpeed)]

EarlierFiles(v) ==
    {FileName(Identifier(v, Earlier, "r1"), ext) : ext \in {"wav", "mp3"}}

\* The handler runs on `body` up to the response or the spawn of espeak.
\* (No other request runs here, so part_007's await of fsPromises.access
\* is folded into the step.)
Post(rnd) ==
    /\ post = NoPost
    /\ LET b == Defaults(body)
           id == Identifier(variant, b, rnd)
       IN  IF Validate(variant, b) = "400"
           THEN /\ post' = [status |-> "400", hash |-> NoId, args |-> NoArgs, procs |-> {}]
                /\ dir' = dir
           ELSE IF variant # "part004" /\ FileName(id, "mp3") \in dir
           THEN /\ post' = [status |-> "hit", hash |-> id, args |-> NoArgs,
                            procs |-> IF variant \in {"server", "part007"}
                                      THEN {"ffprobe"} ELSE {}]
                /\ dir' = dir
           ELSE /\ post' = [status |-> "gen", hash |-> id,
                            args |-> [text |-> b.text, voice |-> b.voice, speed |-> b.speed],
                            procs |-> {"espeak"}]
                /\ dir' = IF variant \in {"part006", "part004"}
                          THEN dir \ {FileName(id, "wav")}
                          ELSE dir
    /\ UNCHANGED <<notFront, body, triples, fprint>>

ValidInit ==
    /\ variant \in FrontVersions
    /\ PipeIdle
    /\ RunIdle
    /\ AdminIdle
    /\ HandlerIdle
    /\ ClientIdle
    /\ body \in Bodies
    /\ post = NoPost
    /\ dir \in SUBSET EarlierFiles(variant)
    /\ triples = [r \in Req |-> NoBody]
    /\ fprint = [r \in Req |-> NoId]

ValidNext == \E rnd \in RandomIds : Post(rnd)

ValidSpec == ValidInit /\ [][ValidNext]_vars

\* C16: a request whose text is missing or empty is answered 400; no
\* subprocess is spawned for it and the audio directory is left as it was.
C16_EmptyTextRejected ==
    [][(body.text \in {Missing, ""} /\ post' # post) =>
          /\ post'.status = "400"
          /\ post'.procs = {}
          /\ dir' = dir]_vars

\* A request with empty text was answered while files were on disk.
C16_Witness == body.text = "" /\ post.status = "400" /\ dir # {}

\* An integer within [minSpeed, maxSpeed].
SpeedInRange(s) == ~s.half /\ minSpeed <= s.int /\ s.int <= maxSpeed

\* C17: a request whose speed is not an integer within 80..500 is answered
\* 400, so espeak is only ever spawned with an integer speed in that range.
C17_SpeedValidated ==
    /\ (post.status # "none" /\ ~SpeedInRange(Defaults(body).speed)) =>
          post.status = "400"
    /\ post.args # NoArgs => SpeedInRange(post.args.speed)

\* C18: a request whose text is longer than maxTextLength is answered 400
\* before the hash is computed, so espeak is only ever spawned with a text
\* of 1..maxTextLength characters.
C18_TextLengthValidated ==
    /\ (post.status # "none" /\ body.text # Missing /\ Len(body.text) > maxTextLength) =>
          (post.status = "400" /\ post.hash = NoId)
    /\ post.args # NoArgs =>
          (1 <= Len(post.args.text) /\ Len(post.args.text) <= maxTextLength)

----------------------------------------------------------------------------
\* The identifiers computed for the requests of one behaviour.

\* Triples (after the defaults) that differ in where text ends and voice
\* begins, and in where voice ends and speed begins.
Triples == [text : {"a", "ab"}, voice : {"c", "bc", "c1"}, speed : {Num(75), Num(175)}]

\* The handler computes the identifier of request r.
Fingerprint(r, rnd) ==
    /\ fprint[r] = NoId
    /\ fprint' = [fprint EXCEPT ![r] = Identifier(variant, triples[r], rnd)]
    /\ UNCHANGED <<notFront, body, post, dir, triples>>

HashInit ==
    /\ variant \in FrontVersions
    /\ PipeIdle
    /\ RunIdle
    /\ AdminIdle
    /\ HandlerIdle
    /\ ClientIdle
    /\ body = NoBody
    /\ post = NoPost
    /\ dir = {}
    /\ triples \in [Req -> Triples]
    /\ fprint = [r \in Req |-> NoId]

HashNext == \E r \in Req, rnd \in RandomIds : Fingerprint(r, rnd)

HashSpec == HashInit /\ [][HashNext]_vars

\* C19: what is fed to the hash encodes (text, voice, speed) injectively:
\* requests with different triples get different hashes, hence different
\* file names.
C19_HashInputInjective ==
    \A r, q \in Req :
        (/\ variant # "part004"
         /\ fprint[r] # NoId /\ fprint[q] # NoId
         /\ triples[r] # triples[q]) =>
            /\ fprint[r] # fprint[q]
            /\ FileName(fprint[r], "mp3") # FileName(fprint[q], "mp3")

\* Requests r and q carry the same triple and both have their identifier.
SameTriple(r, q) ==
    r # q /\ triples[r] = triples[q] /\ fprint[r] # NoId /\ fprint[q] # NoId

----------------------------------------------------------------------------
\* POST /api/cleanup of src/server.js: the sweep of the audio directory.
\* One action is one run of the handler between two awaits (readdir, stat,
\* unlink).  Times are in milliseconds.

\* config.cleanupInterval
cleanupInterval == 3600000

\* Date.now() when the handler's loop starts.  File times are kept as
\* distances from it, so its value only has to exceed them.
now == 2 * cleanupInterval

\* How long before `now` a file may have been modified: a second more than
\* the retention, exactly the retention, a second less.
Agos == {cleanupInterval + 1000, cleanupInterval, cleanupInterval - 1000}

FileAt(n) == IF n.ext = "wav" THEN wavFile[n.fp] ELSE mp3File[n.fp]

\* The time of a version of a file that has since been rewritten is of no
\* account: every write sets the modification time anew.
Dated(n) == Exists(FileAt(n)) /\ mtime[n].of = FileAt(n)

\* fs.stat(filePath)
stat(n) == [mtimeMs |-> IF Dated(n) THEN now - mtime[n].ago ELSE now]

\* An age test that also takes the files exactly as old as the retention.
ExpiredOrDue(stats) == now - stats.mtimeMs >= cleanupInterval

\* if (now - stats.mtimeMs > config.cleanupInterval)
Expired(stats) == now - stats.mtimeMs > cleanupInterval

\* fs.readdir(config.audioDir): the names of the files there, in the
\* directory's order.
AllNames == <<Name("fpA", "wav"), Name("fpA", "mp3"), Name("fpB", "wav"), Name("fpB", "mp3")>>

Listed(n) == Exists(FileAt(n))

readdir == SelectSeq(AllNames, Listed)

\* The loop goes on to the next file; after the last one the handler
\* answers in the same run.
NextFile ==
    /\ files' = Tail(files)
    /\ sweep' = IF Tail(files) = << >> THEN "done" ELSE "stat"

Found(n, what) == seen' = [seen EXCEPT ![n] = what]

\* A catch block that drops the failure.
Swallow(n) == errors' = errors

\* errors.push({ file, error: error.message })
Push(n) == errors' = errors \cup {n}

\* The handler starts and readdir settles.  When readdir fails the outer
\* catch answers 500.
Cleanup(ok) ==
    /\ variant = "server"
    /\ sweep = "idle"
    /\ IF ok
       THEN /\ files' = readdir
            /\ sweep' = IF readdir = << >> THEN "done" ELSE "stat"
       ELSE /\ files' = << >>
            /\ sweep' = "failed"
    /\ UNCHANGED <<pipeVars, notAdmin, mtime, cleaned, errors, seen, upload>>

\* fs.stat of the next listed file settles; the age test follows in the same run.
SweepStat(ok) ==
    /\ sweep = "stat"
    /\ LET n == Head(files)
       IN  IF ~ok \/ ~Exists(FileAt(n))
           THEN Push(n) /\ Found(n, "statfail") /\ NextFile
           ELSE IF Expired(stat(n))
           THEN Found(n, "old") /\ sweep' = "unlink" /\ UNCHANGED <<files, errors>>
           ELSE Found(n, "young") /\ NextFile /\ UNCHANGED errors
    /\ UNCHANGED <<pipeVars, notAdmin, mtime, cleaned, upload>>

\* fs.unlink of the file settles.
SweepUnlink(ok) ==
    /\ sweep = "unlink"
    /\ LET n == Head(files)
       IN  IF ok /\ Exists(FileAt(n))
           THEN /\ wavFile' = IF n.ext = "wav" THEN [wavFile EXCEPT ![n.fp] = Unlink(@)] ELSE wavFile
                /\ mp3File' = IF n.ext = "mp3" THEN [mp3File EXCEPT ![n.fp] = Unlink(@)] ELSE mp3File
                /\ cleaned' = cleaned + 1
                /\ Found(n, "deleted")
                /\ UNCHANGED errors
           ELSE /\ Push(n)
                /\ Found(n, "unlinkfail")
                /\ UNCHANGED <<wavFile, mp3File, cleaned>>
    /\ NextFile
    /\ UNCHANGED <<variant, pc, fp, CACHE, how, outcome, err, meta, spawned, miss,
                   conc, transSrc, notAdmin, mtime, upload>>

Sweep ==
    \/ \E ok \in BOOLEAN : Cleanup(ok)
    \/ \E ok \in BOOLEAN : SweepStat(ok)
    \/ \E ok \in BOOLEAN : SweepUnlink(ok)

----------------------------------------------------------------------------
\* POST /api/upload-to-roblox: the endpoint and its publish call, in
\* src/server.js (uploadAudioToRoblox), part_007 (uploadToRoblox) and
\* part_005 (inline).  One action is one run between two awaits.

UploadVersions == {"server", "part007", "part005"}

\* uploadAudioToRoblox(audioPath, maxRetries = 3)
maxRetries == 3

\* MAX_RETRIES of part_007 and part_005
MAX_RETRIES == 5

\* config.MAX_OPERATION_POLLING_ATTEMPTS of part_007
MAX_OPERATION_POLLING_ATTEMPTS == 20

\* for (let i = 0; i < 10; i++) of part_005
PollingAttempts005 == 10

Retries(v) == IF v = "server" THEN maxRetries ELSE MAX_RETRIES

Pollings(v) == IF v = "part007" THEN MAX_OPERATION_POLLING_ATTEMPTS ELSE PollingAttempts005

\* What one upload attempt can meet: a 2xx answer whose body carries an
\* asset id ("okId"), an operation path ("okPath") or neither ("okNoId"); a
\* 403 with or without an x-csrf-token header; other statuses; no answer.
Responses == {"okId", "okPath", "okNoId", "403token", "403", "408", "429", "500", "400", "neterr"}

\* What one poll of the Open Cloud operation can meet.
Operations == {"pending", "doneId", "doneError", "doneEmpty", "neterr"}

\* res.status(status).json(...): the request is answered.
Answer(status, id) ==
    upload' = [upload EXCEPT !.pc = "done", !.status = status, !.assetId = id]

\* res.json({ success: true, robloxAssetId }) / res.status(200).json({ robloxAssetId: assetId })
Success(id) == Answer("200", id)

\* An error thrown by the publish call reaches the endpoint's catch.
UploadFailed == Answer("500", "none")

\* Attempt k: the form takes a read stream of the file (part_005 holds the
\* file's bytes already) and the POST is sent.
Attempt(k, tok) ==
    upload' = [upload EXCEPT !.pc = "post", !.attempt = k, !.token = tok,
                             !.open = variant = "part005" \/ Exists(mp3File[upload.audioId])]

\* The for loop of the retries has ended without a response.
\* uploadAudioToRoblox then reaches the end of its body and returns
\* undefined; the other versions find no responseData.
OutOfAttempts == IF variant = "server" THEN Success("undefined") ELSE UploadFailed

\* A retry loop without a bound.
NextAttemptUnbounded(tok) == Attempt(upload.attempt + 1, tok)

\* `continue`: the next attempt, if one is left.
NextAttempt(tok) ==
    IF upload.attempt < Retries(variant) THEN Attempt(upload.attempt + 1, tok)
    ELSE OutOfAttempts

\* The request is received.  `id` is the body's audioId (NoFp: none);
\* `configured` tells whether the creator credentials are set.
UploadPost(id, cloud, configured) ==
    /\ variant \in UploadVersions
    /\ upload.pc = "idle"
    /\ variant = "server" => ~cloud
    /\ LET u == [upload EXCEPT !.audioId = id, !.cloud = cloud]
           answer(status) == upload' = [u EXCEPT !.pc = "done", !.status = status]
       IN  IF id = NoFp THEN answer("400")
           ELSE CASE variant = "server" ->
                       IF ~Exists(mp3File[id]) THEN answer("404")
                       ELSE IF ~configured THEN answer("500")
                       ELSE upload' = [u EXCEPT !.pc = "stat"]
                  [] variant = "part007" ->
                       upload' = [u EXCEPT !.pc = "access"]
                  [] variant = "part005" ->
                       IF ~Exists(mp3File[id]) THEN answer("404")
                       ELSE IF ~configured THEN answer("500")
                       ELSE upload' = [u EXCEPT !.pc = "post", !.attempt = 1, !.open = TRUE]
    /\ UNCHANGED <<pipeVars, notAdmin, mtime, sweep, files, cleaned, errors, seen>>

\* part_007: fsPromises.access(mp3File) settles, and uploadToRoblox runs up
\* to its first axios.post.
UploadAccess(configured) ==
    /\ upload.pc = "access"
    /\ IF ~Exists(mp3File[upload.audioId]) THEN Answer("404", "none")
       ELSE IF ~configured THEN UploadFailed
       ELSE Attempt(1, FALSE)
    /\ UNCHANGED <<pipeVars, notAdmin, mtime, sweep, files, cleaned, errors, seen>>

\* server.js: fs.stat(audioPath) settles (a tts artifact is far below
\* config.maxAudioSize), and the first attempt is sent.
UploadStat ==
    /\ upload.pc = "stat"
    /\ IF ~Exists(mp3File[upload.audioId]) THEN UploadFailed
       ELSE Attempt(1, FALSE)
    /\ UNCHANGED <<pipeVars, notAdmin, mtime, sweep, files, cleaned, errors, seen>>

\* The catch block of server.js's attempt.
Caught ==
    IF upload.attempt = maxRetries THEN UploadFailed
    ELSE upload' = [upload EXCEPT !.pc = "delay"]

\* server.js: fetch settles.
Fetched(resp) ==
    CASE resp = "403token" -> NextAttempt(TRUE)
      [] resp = "403" -> Caught
      [] resp \in {"408", "500"} -> upload' = [upload EXCEPT !.pc = "delay"]
      [] resp = "okId" -> Success("id")
      [] resp \in {"okPath", "okNoId"} -> Success("undefined")
      [] OTHER -> Caught

\* part_007 and part_005: what follows the retry loop once a response has
\* been taken.
Taken(resp) ==
    IF upload.cloud
    THEN IF resp = "okPath"
         THEN upload' = [upload EXCEPT !.pc = "poll", !.polls = 0]
         ELSE Success("null")
    ELSE IF resp = "okId" THEN Success("id") ELSE UploadFailed

\* part_007 and part_005: axios.post settles.
Posted(resp) ==
    CASE resp \in {"okId", "okPath", "okNoId"} -> Taken(resp)
      [] resp = "403token" /\ ~upload.cloud -> NextAttempt(TRUE)
      [] resp \in {"neterr", "429", "500"} /\ upload.attempt < MAX_RETRIES ->
            upload' = [upload EXCEPT !.pc = "delay"]
      [] OTHER -> UploadFailed

\* The remote service answers the attempt (or the attempt fails).  An
\* attempt whose read stream found no file sends no body and fails.
UploadResponse(resp) ==
    /\ upload.pc = "post"
    /\ ~upload.open => resp = "neterr"
    /\ IF variant = "server" THEN Fetched(resp) ELSE Posted(resp)
    /\ UNCHANGED <<pipeVars, notAdmin, mtime, sweep, files, cleaned, errors, seen>>

\* The delay before the next attempt is over.
UploadDelay ==
    /\ upload.pc = "delay"
    /\ NextAttempt(upload.token)
    /\ UNCHANGED <<pipeVars, notAdmin, mtime, sweep, files, cleaned, errors, seen>>

\* part_007 and part_005: the polling interval is over and the GET of the
\* operation settles.
UploadPoll(op) ==
    /\ upload.pc = "poll"
    /\ CASE op = "doneId" -> Success("id")
         [] op = "pending" /\ upload.polls + 1 < Pollings(variant) ->
               upload' = [upload EXCEPT !.polls = @ + 1]
         [] OTHER -> UploadFailed
    /\ UNCHANGED <<pipeVars, notAdmin, mtime, sweep, files, cleaned, errors, seen>>

Upload ==
    \/ \E id \in Fps \cup {NoFp}, cloud, configured \in BOOLEAN : UploadPost(id, cloud, configured)
    \/ \E configured \in BOOLEAN : UploadAccess(configured)
    \/ UploadStat
    \/ \E resp \in Responses : UploadResponse(resp)
    \/ UploadDelay
    \/ \E op \in Operations : UploadPoll(op)

----------------------------------------------------------------------------
\* The two maintenance endpoints over an audio directory that earlier
\* requests have filled.

Stamps == {Fresh} \cup [of : {File(1, "complete")}, ago : Agos]

AdminInit ==
    /\ variant \in UploadVersions
    /\ pc = [r \in Req |-> "idle"]
    /\ fp = [r \in Req |-> NoFp]
    /\ wavFile \in [Fps -> {Absent, File(1, "complete")}]
    /\ mp3File \in [Fps -> {Absent, File(1, "complete")}]
    /\ CACHE = [f \in Fps |-> NoMeta]
    /\ how = [r \in Req |-> "none"]
    /\ outcome = [r \in Req |-> "none"]
    /\ err = [r \in Req |-> "none"]
    /\ meta = [r \in Req |-> NoMeta]
    /\ spawned = [r \in Req |-> {}]
    /\ miss = [r \in Req |-> FALSE]
    /\ conc = [r \in Req |-> {}]
    /\ transSrc = [r \in Req |-> Absent]
    /\ RunIdle
    /\ FrontIdle
    /\ mtime \in {m \in [Names -> Stamps] : \A n \in Names : m[n].of = FileAt(n)}
    /\ sweep = "idle"
    /\ files = << >>
    /\ cleaned = 0
    /\ errors = {}
    /\ seen = [n \in Names |-> "none"]
    /\ upload = NoUpload
    /\ HandlerIdle
    /\ ClientIdle

AdminNext == Sweep \/ Upload

AdminSpec == AdminInit /\ [][AdminNext]_vars

----------------------------------------------------------------------------
\* The sweep, in AdminSpec.  There nothing but the sweep changes a file,
\* so mtime[n] still tells which files the directory held when the sweep
\* began, and how old each was.

Held(n) == mtime[n].of # Absent

Age(n) == mtime[n].ago

SweepFailedOn(n) == seen[n] \in {"statfail", "unlinkfail"}

\* C21: when the sweep has answered, every file that was older than the
\* retention (and whose stat and unlink did not fail, see C22) is gone, and
\* every file whose age was within the retention is still there; the file a
\* second older than cleanupInterval is removed, the one a second younger
\* is kept.
C21_SweepRemovesExactlyTheOld ==
    sweep = "done" =>
        \A n \in Names : Held(n) =>
            /\ (Age(n) > cleanupInterval /\ ~SweepFailedOn(n)) => ~Exists(FileAt(n))
            /\ Age(n) <= cleanupInterval => Exists(FileAt(n))
            /\ Age(n) = cleanupInterval - 1000 => seen[n] \in {"young", "statfail"}

C21_Witness ==
    /\ sweep = "done"
    /\ Held(Name("fpA", "mp3")) /\ Age(Name("fpA", "mp3")) = cleanupInterval + 1000
    /\ Held(Name("fpB", "mp3")) /\ Age(Name("fpB", "mp3")) = cleanupInterval - 1000
    /\ Held(Name("fpB", "wav")) /\ Age(Name("fpB", "wav")) = cleanupInterval
    /\ ~Exists(FileAt(Name("fpA", "mp3")))
    /\ Exists(FileAt(Name("fpB", "mp3")))
    /\ cleaned = 1

\* C22: a failing stat or unlink of one file is recorded in `errors` and
\* the loop goes on: when the sweep has answered it has visited every
\* listed file, every old file it did not fail on is deleted, and `cleaned`
\* counts the deleted files only (a file whose unlink failed is still
\* there and is not counted).
C22_SweepFailuresAreCollected ==
    sweep = "done" =>
        /\ \A n \in Names : Held(n) =>
              /\ seen[n] \in {"young", "deleted", "statfail", "unlinkfail"}
              /\ SweepFailedOn(n) <=> n \in errors
              /\ seen[n] = "unlinkfail" => Exists(FileAt(n))
              /\ (Age(n) > cleanupInterval /\ ~SweepFailedOn(n)) => seen[n] = "deleted"
        /\ cleaned = Cardinality({n \in Names : Held(n) /\ ~Exists(FileAt(n))})

C22_Witness ==
    /\ sweep = "done"
    /\ seen[Name("fpA", "wav")] = "unlinkfail"
    /\ seen[Name("fpA", "mp3")] = "statfail"
    /\ seen[Name("fpB", "mp3")] = "deleted"
    /\ cleaned = 1
    /\ Cardinality(errors) = 2

----------------------------------------------------------------------------
\* The upload, in AdminSpec.

\* The upload has passed its existence check and has not been answered:
\* its stat, an attempt or a further attempt is still to read the file.
Outstanding(n) ==
    /\ upload.pc \in {"access", "stat", "post", "delay"}
    /\ n = Name(upload.audioId, "mp3")

\* C24: the sweep deletes no artifact that an outstanding upload refers to.
C24_NoDeletionDuringUpload ==
    [][\A n \in Names :
          (seen[n] # "deleted" /\ seen'[n] = "deleted") => ~Outstanding(n)]_vars

\* C25: an upload request that is answered with success carries an asset
\* identifier.
C25_SuccessCarriesAssetId ==
    upload.status = "200" => upload.assetId = "id"

----------------------------------------------------------------------------
\* POST /api/tts of src/server.js together with POST /api/cleanup.

Quiet == \A r \in Req : ~InFlight(r)

\* The server stays quiet for `ago` milliseconds: file n, written by an
\* earlier request, was last modified that long before the cleanup to come.
Elapse(n, ago) ==
    /\ sweep = "idle"
    /\ Quiet
    /\ Exists(FileAt(n))
    /\ ~Dated(n)
    /\ mtime' = [mtime EXCEPT ![n] = [of |-> FileAt(n), ago |-> ago]]
    /\ UNCHANGED <<pipeVars, notAdmin, sweep, files, cleaned, errors, seen, upload>>

ServeInit ==
    /\ variant = "server"
    /\ PipeIdle
    /\ RunIdle
    /\ FrontIdle
    /\ AdminIdle
    /\ HandlerIdle
    /\ ClientIdle

ServeNext ==
    \/ \E r \in Req, f \in Fps : ApiTts(r, f)
    \/ \E r \in Req : EspeakOpen(r)
    \/ \E r \in Req : EspeakClose(r)
    \/ \E r \in Req, kind \in {"exit", "timeout"} : EspeakFail(r, kind)
    \/ \E r \in Req : FfmpegOpen(r)
    \/ \E r \in Req : FfmpegClose(r)
    \/ \E r \in Req, kind \in {"exit", "timeout"} : FfmpegFail(r, kind)
    \/ \E r \in Req : UnlinkWav(r)
    \/ \E r \in Req : Probe(r)
    \/ \E r \in Req : Stat(r)
    \/ \E n \in Names, ago \in Agos : Elapse(n, ago)
    \/ Sweep

ServeSpec == ServeInit /\ [][ServeNext]_vars

\* C23: with a sweep running alongside, a call still ends with the metadata
\* of an artifact or with a generation failure (of the synthesizer or of the
\* transcoder): no call fails on its stat of the artifact.
C23_SweepSafeForGetOrCreate ==
    \A r \in Req : Failed(r) => (SynthFailure(err[r]) \/ TransFailure(err[r]))

----------------------------------------------------------------------------
\* Further properties of the pipeline, in Spec.

\* stats.size of a file that is still being written (or was left unfinished)
\* can be anything from 0 up: ffmpeg creates its output when it opens it.
Positive(size) == size = "full"

\* C26: whenever a call is answered with success, the size it reports is
\* greater than 0 and the file <hash>.mp3 that its url names exists at that
\* moment.
C26_SuccessHasBytesAndFile ==
    [][\A r \in Req :
          (Answered(r) /\ outcome'[r] = "ok") =>
              /\ Positive(meta'[r].size)
              /\ Exists(mp3File'[fp'[r]])]_vars

\* In this step request r spawns the executable: espeak is spawned in the
\* run that brings r to "synth", ffmpeg in the run that brings it to "trans".
Spawns(r, exe) ==
    LET at == IF exe = "espeak" THEN "synth" ELSE "trans"
    IN  pc[r] # at /\ pc'[r] = at

\* C27: no retry inside the cache.  A call spawns espeak only if it has not
\* spawned it before, and ffmpeg likewise; it spawns nothing once something
\* has failed; the failure, once raised, is the one the call is answered
\* with, and the call is answered with a failure.
C27_NoRetryInsideTheCache ==
    [][\A r \in Req :
          /\ \A exe \in {"espeak", "ffmpeg"} :
                Spawns(r, exe) => (exe \notin spawned[r] /\ err[r] = "none")
          /\ err[r] # "none" =>
                /\ spawned'[r] = spawned[r]
                /\ err'[r] = err[r]
                /\ pc'[r] = "done" => outcome'[r] = "fail"]_vars

C27_Witness ==
    \E r, q \in Req :
        /\ Failed(r) /\ SynthFailure(err[r]) /\ spawned[r] = {"espeak"}
        /\ Failed(q) /\ TransFailure(err[q]) /\ spawned[q] = {"espeak", "ffmpeg"}

\* C28: a step of the call for hash A changes no file but <A>.wav and
\* <A>.mp3: the files named by any other hash are left as they were.
C28_OnlyOwnFilesTouched ==
    [][\A r \in Req :
          ~NotBy(r) =>
              \A f \in Fps \ {fp'[r]} :
                  /\ wavFile'[f] = wavFile[f]
                  /\ mp3File'[f] = mp3File[f]]_vars

\* Two generations for distinct hashes under way together, each with its
\* files on disk.
C28_Witness ==
    \E r, q \in Req :
        /\ fp[r] = "fpA" /\ fp[q] = "fpB"
        /\ pc[r] = "transW" /\ pc[q] = "synthW"
        /\ wavFile["fpA"] = File(r, "complete") /\ mp3File["fpA"] = File(r, "partial")
        /\ wavFile["fpB"] = File(q, "partial") /\ mp3File["fpB"] = Absent

\* The transcoder of request r has been spawned and finds its input, and a
\* file is already at its output path.
OutputInTheWay(r) ==
    /\ pc[r] = "trans"
    /\ Exists(wavFile[fp[r]])
    /\ Exists(mp3File[fp[r]])

\* C29: a file already at the output path does not keep the transcoder
\* from writing its output: it can open (and so replace) the file.
C29_TranscodeOverwrites ==
    \A r \in Req : OutputInTheWay(r) => ENABLED FfmpegOpen(r)

----------------------------------------------------------------------------
\* POST /api/tts of part_006 (spawn with 'error' and 'close' listeners in
\* the handler) and of part_004 (execFile with one callback), followed
\* through the events of the child process.  The child is described by the
\* variables of a wrapper call: child, code, emitted, errorOutput,
\* outputPath (the .wav file), up.

HandlerVersions == {"part006", "part004"}

\* res.status(status).json(...).  The first call sends the response; any
\* later call finds the headers sent and throws ERR_HTTP_HEADERS_SENT.
Send(status) ==
    httpRes' = IF httpRes.sent = 0
               THEN [calls |-> httpRes.calls + 1, sent |-> 1, status |-> status, raised |-> FALSE]
               ELSE [httpRes EXCEPT !.calls = @ + 1, !.raised = TRUE]

\* An exception thrown in the async 'close' listener is an unhandled
\* rejection: it ends the process (the default since Node 15) or is only
\* warned about, according to `fatal`.
Unhandled(fatal) == up' = IF httpRes.sent > 0 /\ fatal THEN FALSE ELSE up

\* The request is received.  The handler answers at once (no text; in
\* part_006, a cached mp3) or starts espeak, which may fail to start.
Receive(hasText, hit, started) ==
    /\ route = "idle"
    /\ variant = "part004" => ~hit
    /\ IF ~hasText
       THEN Send("400") /\ route' = "done" /\ UNCHANGED child
       ELSE IF hit
       THEN Send("200") /\ route' = "done" /\ UNCHANGED child
       ELSE /\ child' = IF started THEN "running" ELSE "spawnfail"
            /\ route' = "espeak"
            /\ UNCHANGED httpRes
    /\ UNCHANGED <<pipeVars, notHandler, wrapper, code, emitted, errorOutput, output,
                   outputPath, timeout, settled, result, killed, up>>

\* espeak writes a chunk to stderr.
HandlerStderr ==
    /\ child = "running"
    /\ route = "espeak"
    /\ emitted < MaxChunks
    /\ emitted' = emitted + 1
    /\ errorOutput' = errorOutput + 1
    /\ UNCHANGED <<pipeVars, notHandler, handlerVars, wrapper, child, code, output,
                   outputPath, timeout, settled, result, killed, up>>

\* espeak writes its .wav file.
HandlerWrite ==
    /\ child = "running"
    /\ route = "espeak"
    /\ outputPath = "absent"
    /\ outputPath' = "full"
    /\ UNCHANGED <<pipeVars, notHandler, handlerVars, wrapper, child, code, emitted,
                   errorOutput, output, timeout, settled, result, killed, up>>

\* espeak exits (code 0 or 1) or is ended by a signal (code null).
HandlerExit(c) ==
    /\ child = "running"
    /\ route = "espeak"
    /\ child' = "closing"
    /\ code' = c
    /\ UNCHANGED <<pipeVars, notHandler, handlerVars, wrapper, emitted, errorOutput,
                   output, outputPath, timeout, settled, result, killed, up>>

\* The child that failed to start emits 'error'; 'close' is still to come.
\* part_006's listener answers 500; execFile calls its callback with the
\* error, and part_004 answers 500.
HandlerError ==
    /\ child = "spawnfail"
    /\ route = "espeak"
    /\ child' = "closing"
    /\ code' = "-2"
    /\ Send("500")
    /\ route' = IF variant = "part004" THEN "called" ELSE route
    /\ UNCHANGED <<pipeVars, notHandler, wrapper, emitted, errorOutput, output,
                   outputPath, timeout, settled, result, killed, up>>

\* The child emits 'close'.  part_006's listener answers 500 on a code
\* other than 0 and goes on to convertToMp3 otherwise.  execFile calls its
\* callback unless it has called it already; part_004 then answers 500 on
\* an error or a missing file, and the file's content otherwise, and
\* unlinks the file.
HandlerClose(readOk, fatal) ==
    /\ child = "closing"
    /\ route \in {"espeak", "called"}
    /\ child' = "closed"
    /\ IF variant = "part006"
       THEN IF code # "0"
            THEN Send("500") /\ Unhandled(fatal) /\ route' = "done" /\ UNCHANGED outputPath
            ELSE route' = "ffmpeg" /\ UNCHANGED <<httpRes, up, outputPath>>
       ELSE /\ route' = "done"
            /\ UNCHANGED up
            /\ IF route = "called" THEN UNCHANGED <<httpRes, outputPath>>
               ELSE IF code # "0" \/ outputPath = "absent"
               THEN Send("500") /\ UNCHANGED outputPath
               ELSE /\ Send(IF readOk THEN "200" ELSE "500")
                    /\ outputPath' = "absent"
    /\ UNCHANGED <<pipeVars, notHandler, wrapper, code, emitted, errorOutput, output,
                   timeout, settled, result, killed>>

\* part_006: convertToMp3 settles.  When it resolved the handler stats the
\* mp3, unlinks the wav (which throws if there is none) and answers; its
\* catch answers 500.
HandlerConverted(ok) ==
    /\ route = "ffmpeg"
    /\ route' = "done"
    /\ IF ok /\ outputPath = "full"
       THEN Send("200") /\ outputPath' = "absent"
       ELSE Send("500") /\ UNCHANGED outputPath
    /\ UNCHANGED <<pipeVars, notHandler, wrapper, child, code, emitted, errorOutput,
                   output, timeout, settled, result, killed, up>>

HandlerInit ==
    /\ variant \in HandlerVersions
    /\ PipeIdle
    /\ RunIdle
    /\ FrontIdle
    /\ AdminIdle
    /\ HandlerIdle
    /\ ClientIdle

HandlerNext ==
    \/ \E hasText, hit, started \in BOOLEAN : Receive(hasText, hit, started)
    \/ HandlerStderr
    \/ HandlerWrite
    \/ \E c \in {"0", "1", "null"} : HandlerExit(c)
    \/ HandlerError
    \/ \E readOk, fatal \in BOOLEAN : HandlerClose(readOk, fatal)
    \/ \E ok \in BOOLEAN : HandlerConverted(ok)

HandlerSpec == HandlerInit /\ [][HandlerNext]_vars

\* C30: the handler calls res.json at most once, and exactly once by the
\* time it and its callbacks have run to their end, on every path.
C30_ExactlyOneResponse ==
    /\ httpRes.calls <= 1
    /\ route = "done" => httpRes.calls = 1

----------------------------------------------------------------------------
\* C31: the promise of runEspeak and convertToMp3 of src/server.js settles
\* once.  Once settled, its state and value never change; when the timer has
\* fired the promise is rejected with the timeout error, also after the
\* later 'close'; when 'close' came first the timer is cleared and the
\* process is never killed.
C31_SettlesExactlyOnce ==
    [][HasTimer(wrapper) =>
          /\ settled # "pending" => (settled' = settled /\ result' = result)
          /\ timeout' = "fired" => (settled' = "rejected" /\ result'.kind = "timeout")
          /\ timeout' = "cleared" => (~killed' /\ result'.kind # "timeout")
          /\ timeout \in {"fired", "cleared"} => timeout' = timeout]_vars

\* The timer fired first, and the child's 'close' came afterwards.
C31_Witness ==
    /\ HasTimer(wrapper)
    /\ timeout = "fired" /\ killed
    /\ child = "closed" /\ code = "null"
    /\ settled = "rejected" /\ result.kind = "timeout"

----------------------------------------------------------------------------
\* upload.attempt is the number of POSTs the publish call has sent;
\* upload.polls the number of polls that found the operation pending, so
\* the poll awaited at "poll" is poll number upload.polls + 1.
PollsMade == IF upload.pc = "poll" THEN upload.polls + 1 ELSE upload.polls

\* C32: a publish call sends at most maxRetries (src/server.js) or
\* MAX_RETRIES (part_007, part_005) POSTs and then makes at most
\* MAX_OPERATION_POLLING_ATTEMPTS (part_005: 10) polls; every step of the
\* call sends the next POST, makes the next poll or ends the call, and a
\* poll that does not find the operation pending ends it.
C32_PublishIsBounded ==
    [][/\ upload'.attempt <= Retries(variant)
       /\ upload'.polls < Pollings(variant)
       /\ variant = "server" => upload'.polls = 0
       /\ upload'.attempt >= upload.attempt
       /\ upload'.polls >= upload.polls
       /\ (upload.pc = "post" /\ upload' # upload) =>
             \/ upload'.pc \in {"done", "delay", "poll"}
             \/ upload'.attempt = upload.attempt + 1
       /\ (upload.pc = "poll" /\ upload' # upload) =>
             \/ upload'.pc = "done"
             \/ upload'.pc = "poll" /\ upload'.polls = upload.polls + 1]_vars

\* The last allowed poll follows the last allowed POST.
C32_Witness ==
    /\ variant = "part007"
    /\ upload.pc = "poll"
    /\ upload.attempt = MAX_RETRIES
    /\ PollsMade = MAX_OPERATION_POLLING_ATTEMPTS

\* The statuses that stand for a client error that no retry can mend (4xx
\* other than 403, 408 and 429), and the answers after which another
\* attempt is in order.
ClientErrors == {"400"}

Retryable == {"neterr", "408", "429", "500", "403token"}

\* This step of the upload leads to another POST (at once or after a delay).
AnotherAttempt ==
    \/ upload'.pc = "delay"
    \/ upload'.pc = "post" /\ upload'.attempt = upload.attempt + 1

\* C33: an attempt answered with a non-retryable client error ends the
\* publish call as a failure, and only a retryable answer leads to another
\* attempt.
C33_ClientErrorsNotRetried ==
    [][\A resp \in Responses :
          UploadResponse(resp) =>
              /\ resp \in ClientErrors => (upload'.pc = "done" /\ upload'.status = "500")
              /\ (AnotherAttempt /\ upload.open) => resp \in Retryable]_vars

----------------------------------------------------------------------------
\* The game client (src/unnamed/part_008). Its threads run one at a time
\* and give way only inside HttpService:PostAsync, so each action below is
\* the code one thread runs between two such points. Request i is the one
\* passed by the i-th call of TTSModule.speak; spoken[i] tells whether that
\* call named a player.

\* The requests speak accepted, in the order of the calls.
Accepted == SelectSeq([i \in 1..Len(spoken) |-> i], LAMBDA i : spoken[i])

\* A client that never finds itself busy.
NeverProcessing == FALSE

\* The test of line 124.
Processing == isProcessing

\* Lines 129-137: mark the client busy and send request i.
PostAsync(i, flying) ==
    /\ isProcessing' = TRUE
    /\ posted' = Append(posted, i)
    /\ inflight' = flying \cup {i}

\* TTSModule.speak up to the point where it gives way (lines 121-137): a
\* call without a player raises an error, a call made while a request is
\* being processed is queued, any other call sends its request.
Speak(hasPlayer) ==
    /\ Len(spoken) < MaxSpeak
    /\ spoken' = Append(spoken, hasPlayer)
    /\ LET i == Len(spoken) + 1 IN
       IF ~hasPlayer
       THEN UNCHANGED <<isProcessing, queue, posted, inflight>>
       ELSE IF Processing
            THEN /\ queue' = Append(queue, i)
                 /\ UNCHANGED <<isProcessing, posted, inflight>>
            ELSE /\ PostAsync(i, inflight)
                 /\ UNCHANGED queue
    /\ UNCHANGED <<activeSounds, sounds, notClient>>

\* What PostAsync can come back with: an error caught by pcall, a body
\* JSONDecode rejects, a body without audio_data, a body whose audio_data
\* createSound cannot work on, a body with audio.
Replies == {"failed", "undecodable", "noaudio", "unplayable", "audio"}

\* JSONDecode (line 140) and createSound (line 142) run outside pcall: an
\* error of theirs ends the thread there.
Raises(reply) == reply \in {"undecodable", "unplayable"}

\* Lines 153-158: reset the flag and start the oldest queued request, whose
\* own call of speak runs on to its PostAsync.
StartNext(flying) ==
    IF Len(queue) > 0
    THEN /\ queue' = Tail(queue)
         /\ PostAsync(Head(queue), flying)
    ELSE /\ isProcessing' = FALSE
         /\ inflight' = flying
         /\ UNCHANGED <<queue, posted>>

\* TTSModule.speak from the return of PostAsync on (lines 139-158).
Resume(i, reply) ==
    /\ i \in inflight
    /\ IF Raises(reply)
       THEN /\ inflight' = inflight \ {i}
            /\ UNCHANGED <<isProcessing, queue, posted, activeSounds, sounds>>
       ELSE /\ IF reply = "audio"
               THEN /\ activeSounds' = Append(activeSounds, i)
                    /\ sounds' = [sounds EXCEPT ![i] = "playing"]
               ELSE UNCHANGED <<activeSounds, sounds>>
            /\ StartNext(inflight \ {i})
    /\ UNCHANGED <<spoken, notClient>>

\* createSound's Heartbeat handler once the samples are used up (lines
\* 96-99): the sound destroys itself, which leaves it without a Parent.
Heartbeat(s) ==
    /\ sounds[s] = "playing"
    /\ sounds' = [sounds EXCEPT ![s] = "destroyed"]
    /\ UNCHANGED <<isProcessing, queue, activeSounds, spoken, posted, inflight, notClient>>

\* sound.Parent (line 165).
Parent(s) == sounds[s] = "playing"

\* TTSModule.stop (lines 162-171), also run by TTSModule.init: the sounds
\* of the list that have a Parent are stopped, destroyed and removed.
Stop ==
    /\ activeSounds' = SelectSeq(activeSounds, LAMBDA s : ~Parent(s))
    /\ sounds' = [s \in Speaks |->
                    IF Parent(s) /\ \E k \in 1..Len(activeSounds) : activeSounds[k] = s
                    THEN "destroyed" ELSE sounds[s]]
    /\ UNCHANGED <<isProcessing, queue, spoken, posted, inflight, notClient>>

ClientInit ==
    /\ variant = "part008"
    /\ PipeIdle
    /\ RunIdle
    /\ FrontIdle
    /\ AdminIdle
    /\ HandlerIdle
    /\ ClientIdle

ClientNext ==
    \/ \E hasPlayer \in BOOLEAN : Speak(hasPlayer)
    \/ \E i \in Speaks, reply \in Replies : Resume(i, reply)
    \/ \E s \in Speaks : Heartbeat(s)
    \/ Stop

ClientSpec == ClientInit /\ [][ClientNext]_vars

\* C34: no two requests are in flight together, and a call of speak made
\* while State.isProcessing is true appends its request to State.queue and
\* sends nothing.
C34_OneRequestInFlight ==
    [][/\ Cardinality(inflight') <= 1
       /\ (isProcessing /\ Speak(TRUE)) =>
             /\ queue' = Append(queue, Len(spoken) + 1)
             /\ posted' = posted
             /\ inflight' = inflight]_vars

\* Two calls of speak were made while the first request was in flight.
C34_Witness ==
    /\ isProcessing
    /\ inflight = {1}
    /\ queue = <<2, 3>>
    /\ posted = <<1>>

\* C35: the requests are sent in the order of the speak calls, none of them
\* twice, a request not yet sent waits in the queue in that order, and once
\* no HTTP call is in flight every request has been sent.
C35_SentInOrderExactlyOnce ==
    /\ posted \o queue = Accepted
    /\ inflight = {} => posted = Accepted

\* C36: whatever PostAsync came back with, the thread that resumes starts
\* the oldest queued request or, with nothing queued, resets
\* State.isProcessing.
C36_EveryReplyStartsTheNext ==
    [][\A i \in Speaks, reply \in Replies :
          Resume(i, reply) =>
              IF Len(queue) > 0
              THEN posted' = Append(posted, Head(queue)) /\ queue' = Tail(queue)
              ELSE isProcessing' = FALSE]_vars

\* C37: a call of TTSModule.stop leaves State.activeSounds empty.
C37_StopEmptiesActiveSounds ==
    [][Stop => activeSounds' = << >>]_vars

====
